---- MODULE Spec2Model ----
(***************************************************************************)
(* Model of the radix tree of ipset.go: the node arena (free list and       *)
(* pool blocks), insert, delete and find, and the public operations Add,    *)
(* Set, Sub, Remove, Get and GetByIP.                                       *)
(*                                                                          *)
(* Nodes are handles 1..NodeSlots into the function `nodes`; the nil        *)
(* pointer is NIL and the nil interface value is NoValue.  A byte is a      *)
(* number of BitsPerByte bits, an address or a mask a sequence of bytes.    *)
(* A Go panic (nil dereference, index out of range) is the result ErrPanic  *)
(* of the operation, raised before the operation has written anything.      *)
(*                                                                          *)
(* lastOp records the last call: its operation, arguments, error and        *)
(* returned value.  handed records the nodes newNode returned during the    *)
(* last call.  Values passed to Add and Set are non-nil.                    *)
(***************************************************************************)
EXTENDS Integers, Sequences, FiniteSets, TLC

VARIABLES nodes, root, free, pool, lastOp, handed

vars == <<nodes, root, free, pool, lastOp, handed>>

(***************************************************************************)
(* Bounds of the model.                                                     *)
(***************************************************************************)
\* bits of a byte (8 in the program)
BitsPerByte == 2
\* bytes of an address of the short family (net.IPv4len is 4)
IPv4len == 1
\* nodes per pool block (4096 / unsafe.Sizeof(node{}) in the program)
ALLOC_LEN == 3
\* nodes the pool may hand out in one run of Spec
MaxNodes == 4
\* nodes the pool may hand out in one run of SpecWide
MaxNodesWide == 3

\* bytes of an address of the long family (net.IPv6len is 16)
IPv6len == IPv4len + 1
MaxBits == BitsPerByte * IPv6len
NodeSlots == MaxNodes + MaxBits

(***************************************************************************)
(* Values of the program.                                                   *)
(***************************************************************************)
NIL == 0
NoValue == 0
Values == {1, 2}

ErrNone == "nil"
ErrNodeBusy == "node is busy"
ErrNotFound == "no such node"
ErrBadIP == "bad IP address or mask"
ErrPanic == "panic"

RECURSIVE Pow2(_)
Pow2(n) == IF n = 0 THEN 1 ELSE 2 * Pow2(n - 1)

START_BYTE == Pow2(BitsPerByte - 1)
AllOnes == Pow2(BitsPerByte) - 1

\* byte & bitmap # 0, for a bitmap of one set bit
BitSet(byte, bitmap) == (byte \div bitmap) % 2 = 1

\* net.CIDRMask(ones, bits): `ones` leading one bits in bits/BitsPerByte bytes
CIDRMask(ones, bits) ==
    [j \in 1..(bits \div BitsPerByte) |->
        LET n == ones - (j - 1) * BitsPerByte IN
        IF n >= BitsPerByte THEN AllOnes
        ELSE IF n <= 0 THEN 0
        ELSE AllOnes - (Pow2(BitsPerByte - n) - 1)]

MASK_32 == CIDRMask(BitsPerByte * IPv4len, BitsPerByte * IPv4len)
MASK_128 == CIDRMask(BitsPerByte * IPv6len, BitsPerByte * IPv6len)

ZeroNode == [left |-> NIL, right |-> NIL, parent |-> NIL, value |-> NoValue]

\* the IPSet as one record, threaded through the loops of an operation
Set0 == [nodes |-> nodes, root |-> root, free |-> free, pool |-> pool]

(***************************************************************************)
(* newNode: pop the free list and clear the node, or carve the next slot    *)
(* of the current pool block, allocating a block when it is full.           *)
(***************************************************************************)
\* newNode that pops the free list without clearing left, parent and value
newNodeKeepsLinks(s) ==
    IF s.free # NIL
    THEN LET p == s.free IN
         [s |-> [s EXCEPT !.free = s.nodes[p].right,
                          !.nodes = [s.nodes EXCEPT ![p].right = NIL]],
          p |-> p, recycled |-> TRUE]
    ELSE LET size == s.pool.len IN
         IF size = s.pool.cap
         THEN [s |-> [s EXCEPT !.pool = [len |-> 1, cap |-> ALLOC_LEN,
                                         base |-> s.pool.base + s.pool.cap]],
               p |-> s.pool.base + s.pool.cap + 1, recycled |-> FALSE]
         ELSE [s |-> [s EXCEPT !.pool = [s.pool EXCEPT !.len = size + 1]],
               p |-> s.pool.base + size + 1, recycled |-> FALSE]

newNode(s) ==
    IF s.free # NIL
    THEN LET p == s.free IN
         [s |-> [s EXCEPT !.free = s.nodes[p].right,
                          !.nodes = [s.nodes EXCEPT ![p] = ZeroNode]],
          p |-> p, recycled |-> TRUE]
    ELSE LET size == s.pool.len IN
         IF size = s.pool.cap
         THEN [s |-> [s EXCEPT !.pool = [len |-> 1, cap |-> ALLOC_LEN,
                                         base |-> s.pool.base + s.pool.cap]],
               p |-> s.pool.base + s.pool.cap + 1, recycled |-> FALSE]
         ELSE [s |-> [s EXCEPT !.pool = [s.pool EXCEPT !.len = size + 1]],
               p |-> s.pool.base + size + 1, recycled |-> FALSE]

\* what a handed-out node looks like at the moment newNode returns it (node),
\* and what it held just before the call (was)
HandOut(s, r) ==
    [p |-> r.p, recycled |-> r.recycled, node |-> r.s.nodes[r.p], was |-> s.nodes[r.p]]

\* nodes carved from the pool blocks so far
Carved(p) == p.base + p.len

(***************************************************************************)
(* insert                                                                   *)
(***************************************************************************)
\* the first loop of insert: descend while the mask has bits and nodes exist
RECURSIVE insertDescend(_, _, _, _, _, _)
insertDescend(s, key, mask, i, bitmap, node) ==
    IF ~BitSet(mask[i + 1], bitmap)
    THEN [node |-> node, next |-> node, i |-> i, bitmap |-> bitmap]
    ELSE LET next == IF BitSet(key[i + 1], bitmap)
                     THEN s.nodes[node].right ELSE s.nodes[node].left
             shifted == bitmap \div 2
         IN  IF next = NIL
             THEN [node |-> node, next |-> NIL, i |-> i, bitmap |-> bitmap]
             ELSE IF shifted = 0
                  THEN IF i + 1 = Len(key)
                       THEN [node |-> next, next |-> next, i |-> i + 1, bitmap |-> 0]
                       ELSE insertDescend(s, key, mask, i + 1, START_BYTE, next)
                  ELSE insertDescend(s, key, mask, i, shifted, next)

\* insertCreate that links every new node as the left child, whatever the bit
RECURSIVE insertCreateLeftOnly(_, _, _, _, _, _, _)
insertCreateLeftOnly(s, key, mask, i, bitmap, node, log) ==
    IF ~BitSet(mask[i + 1], bitmap)
    THEN [s |-> s, node |-> node, log |-> log]
    ELSE LET r == newNode(s)
             next == r.p
             linked == [r.s.nodes EXCEPT
                          ![next].parent = node,
                          ![node] = [@ EXCEPT !.left = next]]
             s2 == [r.s EXCEPT !.nodes = linked]
             log2 == Append(log, HandOut(s, r))
             shifted == bitmap \div 2
         IN  IF shifted = 0
             THEN IF i + 1 = Len(key)
                  THEN [s |-> s2, node |-> next, log |-> log2]
                  ELSE insertCreateLeftOnly(s2, key, mask, i + 1, START_BYTE, next, log2)
             ELSE insertCreateLeftOnly(s2, key, mask, i, shifted, next, log2)

\* insertCreate that does not set the parent link of the new node
RECURSIVE insertCreateNoParent(_, _, _, _, _, _, _)
insertCreateNoParent(s, key, mask, i, bitmap, node, log) ==
    IF ~BitSet(mask[i + 1], bitmap)
    THEN [s |-> s, node |-> node, log |-> log]
    ELSE LET r == newNode(s)
             next == r.p
             linked == [r.s.nodes EXCEPT
                          ![node] = IF BitSet(key[i + 1], bitmap)
                                    THEN [@ EXCEPT !.right = next]
                                    ELSE [@ EXCEPT !.left = next]]
             s2 == [r.s EXCEPT !.nodes = linked]
             log2 == Append(log, HandOut(s, r))
             shifted == bitmap \div 2
         IN  IF shifted = 0
             THEN IF i + 1 = Len(key)
                  THEN [s |-> s2, node |-> next, log |-> log2]
                  ELSE insertCreateNoParent(s2, key, mask, i + 1, START_BYTE, next, log2)
             ELSE insertCreateNoParent(s2, key, mask, i, shifted, next, log2)

\* the second loop of insert: create and link a node for every remaining bit
RECURSIVE insertCreate(_, _, _, _, _, _, _)
insertCreate(s, key, mask, i, bitmap, node, log) ==
    IF ~BitSet(mask[i + 1], bitmap)
    THEN [s |-> s, node |-> node, log |-> log]
    ELSE LET r == newNode(s)
             next == r.p
             linked == [r.s.nodes EXCEPT
                          ![next].parent = node,
                          ![node] = IF BitSet(key[i + 1], bitmap)
                                    THEN [@ EXCEPT !.right = next]
                                    ELSE [@ EXCEPT !.left = next]]
             s2 == [r.s EXCEPT !.nodes = linked]
             log2 == Append(log, HandOut(s, r))
             shifted == bitmap \div 2
         IN  IF shifted = 0
             THEN IF i + 1 = Len(key)
                  THEN [s |-> s2, node |-> next, log |-> log2]
                  ELSE insertCreate(s2, key, mask, i + 1, START_BYTE, next, log2)
             ELSE insertCreate(s2, key, mask, i, shifted, next, log2)

\* insert without the busy check: the value is replaced whatever `overwrite` is
insertOverwrites(s, key, mask, value, overwrite) ==
    IF Len(key) # Len(mask)
    THEN [s |-> s, err |-> ErrBadIP, log |-> <<>>]
    ELSE IF Len(mask) = 0
    THEN [s |-> s, err |-> ErrPanic, log |-> <<>>]
    ELSE LET d == insertDescend(s, key, mask, 0, START_BYTE, s.root) IN
         IF d.next # NIL
         THEN [s |-> [s EXCEPT !.nodes[d.node].value = value],
               err |-> ErrNone, log |-> <<>>]
         ELSE LET c == insertCreate(s, key, mask, d.i, d.bitmap, d.node, <<>>) IN
              [s |-> [c.s EXCEPT !.nodes[c.node].value = value],
               err |-> ErrNone, log |-> c.log]

insert(s, key, mask, value, overwrite) ==
    IF Len(key) # Len(mask)
    THEN [s |-> s, err |-> ErrBadIP, log |-> <<>>]
    ELSE IF Len(mask) = 0
    THEN [s |-> s, err |-> ErrPanic, log |-> <<>>]
    ELSE LET d == insertDescend(s, key, mask, 0, START_BYTE, s.root) IN
         IF d.next # NIL
         THEN IF s.nodes[d.node].value # NoValue /\ ~overwrite
              THEN [s |-> s, err |-> ErrNodeBusy, log |-> <<>>]
              ELSE [s |-> [s EXCEPT !.nodes[d.node].value = value],
                    err |-> ErrNone, log |-> <<>>]
         ELSE LET c == insertCreate(s, key, mask, d.i, d.bitmap, d.node, <<>>) IN
              [s |-> [c.s EXCEPT !.nodes[c.node].value = value],
               err |-> ErrNone, log |-> c.log]

(***************************************************************************)
(* delete                                                                   *)
(***************************************************************************)
\* the descent of delete: follow the mask's bits, creating nothing
RECURSIVE deleteDescend(_, _, _, _, _, _)
deleteDescend(s, key, mask, i, bitmap, node) ==
    IF node = NIL \/ ~BitSet(mask[i + 1], bitmap)
    THEN node
    ELSE LET next == IF BitSet(key[i + 1], bitmap)
                     THEN s.nodes[node].right ELSE s.nodes[node].left
             shifted == bitmap \div 2
         IN  IF shifted = 0
             THEN IF i + 1 = Len(key)
                  THEN next
                  ELSE deleteDescend(s, key, mask, i + 1, START_BYTE, next)
             ELSE deleteDescend(s, key, mask, i, shifted, next)

\* trimOne that pushes the node on the free list while its parent still
\* points at it
trimOneKeepsLink(s, node) ==
    [s EXCEPT !.nodes = [s.nodes EXCEPT ![node].right = s.free],
              !.free = node]

\* one round of the "trim leaf" loop: unlink node from its parent and push
\* it on the free list through its right link
trimOne(s, node) ==
    LET par == s.nodes[node].parent
        unlinked == IF s.nodes[par].right = node
                    THEN [s.nodes EXCEPT ![par].right = NIL]
                    ELSE [s.nodes EXCEPT ![par].left = NIL]
    IN  [s EXCEPT !.nodes = [unlinked EXCEPT ![node].right = s.free],
                  !.free = node]

\* trimLeaf that never climbs: only the reached node is unlinked and released
trimLeafNoClimb(s, node) == trimOne(s, node)

\* trimLeaf that climbs past ancestors holding a value
RECURSIVE trimLeafPastValues(_, _)
trimLeafPastValues(s, node) ==
    LET s2 == trimOne(s, node)
        par == s2.nodes[node].parent
    IN  IF s2.nodes[par].right # NIL \/ s2.nodes[par].left # NIL
        THEN s2
        ELSE IF s2.nodes[par].parent = NIL
             THEN s2
             ELSE trimLeafPastValues(s2, par)

\* the "trim leaf" loop, entered with a node whose parent is not nil
RECURSIVE trimLeaf(_, _)
trimLeaf(s, node) ==
    LET s2 == trimOne(s, node)
        par == s2.nodes[node].parent
    IN  IF s2.nodes[par].right # NIL \/ s2.nodes[par].left # NIL
           \/ s2.nodes[par].value # NoValue
        THEN s2
        ELSE IF s2.nodes[par].parent = NIL
             THEN s2
             ELSE trimLeaf(s2, par)

delete(s, key, mask, sub) ==
    IF Len(key) # Len(mask)
    THEN [s |-> s, err |-> ErrBadIP]
    ELSE IF Len(mask) = 0
    THEN [s |-> s, err |-> ErrPanic]
    ELSE LET node == deleteDescend(s, key, mask, 0, START_BYTE, s.root) IN
         IF node = NIL
         THEN [s |-> s, err |-> ErrNotFound]
         ELSE IF ~sub /\ (s.nodes[node].right # NIL \/ s.nodes[node].left # NIL)
         THEN IF s.nodes[node].value # NoValue
              THEN [s |-> [s EXCEPT !.nodes[node].value = NoValue], err |-> ErrNone]
              ELSE [s |-> s, err |-> ErrNotFound]
         ELSE IF s.nodes[node].parent = NIL
         THEN [s |-> s, err |-> ErrPanic]
         ELSE [s |-> trimLeaf(s, node), err |-> ErrNone]

(***************************************************************************)
(* find                                                                     *)
(***************************************************************************)
\* findLoop that forgets the best match at every node without a value
RECURSIVE findLoopForgets(_, _, _, _, _, _, _)
findLoopForgets(s, key, mask, i, bitmap, node, value) ==
    IF node = NIL
    THEN value
    ELSE LET best == s.nodes[node].value
             next == IF BitSet(key[i + 1], bitmap)
                     THEN s.nodes[node].right ELSE s.nodes[node].left
             shifted == bitmap \div 2
         IN  IF ~BitSet(mask[i + 1], bitmap)
             THEN best
             ELSE IF shifted = 0
                  THEN IF i + 1 >= Len(key)
                       THEN IF next # NIL THEN s.nodes[next].value ELSE best
                       ELSE findLoopForgets(s, key, mask, i + 1, START_BYTE, next, best)
                  ELSE findLoopForgets(s, key, mask, i, shifted, next, best)

RECURSIVE findLoop(_, _, _, _, _, _, _)
findLoop(s, key, mask, i, bitmap, node, value) ==
    IF node = NIL
    THEN value
    ELSE LET best == IF s.nodes[node].value # NoValue
                     THEN s.nodes[node].value ELSE value
             next == IF BitSet(key[i + 1], bitmap)
                     THEN s.nodes[node].right ELSE s.nodes[node].left
             shifted == bitmap \div 2
         IN  IF ~BitSet(mask[i + 1], bitmap)
             THEN best
             ELSE IF shifted = 0
                  THEN IF i + 1 >= Len(key)
                       THEN IF next # NIL THEN s.nodes[next].value ELSE best
                       ELSE findLoop(s, key, mask, i + 1, START_BYTE, next, best)
                  ELSE findLoop(s, key, mask, i, shifted, next, best)

find(s, key, mask) ==
    IF Len(key) # Len(mask)
    THEN [value |-> NoValue, err |-> ErrBadIP]
    ELSE IF s.root # NIL /\ Len(key) = 0
    THEN [value |-> NoValue, err |-> ErrPanic]
    ELSE [value |-> findLoop(s, key, mask, 0, START_BYTE, s.root, NoValue),
          err |-> ErrNone]

\* GetByIP as a function of the set
getByIP(s, ip) ==
    IF Len(ip) = IPv4len THEN find(s, ip, MASK_32) ELSE find(s, ip, MASK_128)

(***************************************************************************)
(* Inputs: addresses of both families, the prefixes net.IPNet forms of      *)
(* them (the address masked by a CIDR mask), and malformed shapes.          *)
(***************************************************************************)
Zeros(n) == [j \in 1..n |-> 0]

ShortBits == BitsPerByte * IPv4len
LongBits == BitsPerByte * IPv6len

\* the address whose first bit is 1 and whose other bits are 0
HighBit(n) == [Zeros(n) EXCEPT ![1] = START_BYTE]

\* prefixes as net.IPNet holds them: an address and a CIDR mask of its length
Cidr4 ==
    { <<Zeros(IPv4len), CIDRMask(0, ShortBits)>>,
      <<Zeros(IPv4len), CIDRMask(1, ShortBits)>>,
      <<Zeros(IPv4len), CIDRMask(ShortBits, ShortBits)>> }

Cidr16 ==
    { <<Zeros(IPv6len), CIDRMask(ShortBits + 1, LongBits)>> }

\* a prefix beside the others: the other half of the address space
Cidr4High ==
    { <<HighBit(IPv4len), CIDRMask(1, ShortBits)>> }

\* shapes that are no address of either family: empty, unequal lengths, and
\* equal lengths of IPv6len + 1 bytes
Malformed ==
    { <<Zeros(0), Zeros(0)>>,
      <<Zeros(IPv4len), MASK_128>>,
      <<Zeros(IPv6len + 1), CIDRMask(1, BitsPerByte * (IPv6len + 1))>> }

\* the inputs of Spec: both families on one path, down to ShortBits + 1 bits
Cidrs == Cidr4 \cup Cidr16 \cup Malformed

\* a prefix whose address has a bit set beyond its mask, for Get
Cidr4Loose ==
    { <<[Zeros(IPv4len) EXCEPT ![IPv4len] = 1], CIDRMask(1, ShortBits)>> }
Ips == {Zeros(IPv4len), Zeros(IPv6len), Zeros(0), Zeros(IPv6len + 1)}

\* the inputs of SpecWide: one family, both halves of the address space
CidrsWide == Cidr4 \cup Cidr4High
IpsWide == {Zeros(IPv4len), HighBit(IPv4len)}

WellFormedLen(n) == n = IPv4len \/ n = IPv6len

Op(op, key, mask, value, err, ret) ==
    [op |-> op, key |-> key, mask |-> mask, value |-> value, err |-> err, ret |-> ret]

(***************************************************************************)
(* The state machine: NewSet, then any sequence of the public operations.   *)
(* `limit` bounds the nodes the pool hands out.                             *)
(***************************************************************************)
Init ==
    /\ nodes = [n \in 1..NodeSlots |-> ZeroNode]
    /\ root = 1
    /\ free = NIL
    /\ pool = [len |-> 1, cap |-> ALLOC_LEN, base |-> 0]
    /\ lastOp = Op("NewSet", <<>>, <<>>, NoValue, ErrNone, NoValue)
    /\ handed = <<>>

Commit(s) ==
    /\ nodes' = s.nodes
    /\ root' = s.root
    /\ free' = s.free
    /\ pool' = s.pool

Add(key, mask, val, limit) ==
    LET r == insert(Set0, key, mask, val, FALSE) IN
    /\ Carved(r.s.pool) <= limit
    /\ Commit(r.s)
    /\ handed' = r.log
    /\ lastOp' = Op("Add", key, mask, val, r.err, NoValue)

Set(key, mask, val, limit) ==
    LET r == insert(Set0, key, mask, val, TRUE) IN
    /\ Carved(r.s.pool) <= limit
    /\ Commit(r.s)
    /\ handed' = r.log
    /\ lastOp' = Op("Set", key, mask, val, r.err, NoValue)

Sub(key, mask) ==
    LET r == delete(Set0, key, mask, TRUE) IN
    /\ Commit(r.s)
    /\ handed' = <<>>
    /\ lastOp' = Op("Sub", key, mask, NoValue, r.err, NoValue)

Remove(key, mask) ==
    LET r == delete(Set0, key, mask, FALSE) IN
    /\ Commit(r.s)
    /\ handed' = <<>>
    /\ lastOp' = Op("Remove", key, mask, NoValue, r.err, NoValue)

Get(key, mask) ==
    LET r == find(Set0, key, mask) IN
    /\ UNCHANGED <<nodes, root, free, pool>>
    /\ handed' = <<>>
    /\ lastOp' = Op("Get", key, mask, NoValue, r.err, r.value)

GetByIP(ip) ==
    LET r == getByIP(Set0, ip) IN
    /\ UNCHANGED <<nodes, root, free, pool>>
    /\ handed' = <<>>
    /\ lastOp' = Op("GetByIP", ip, <<>>, NoValue, r.err, r.value)

Next ==
    \/ \E c \in Cidrs, v \in Values : Add(c[1], c[2], v, MaxNodes)
    \/ \E c \in Cidrs, v \in Values : Set(c[1], c[2], v, MaxNodes)
    \/ \E c \in Cidrs : Sub(c[1], c[2])
    \/ \E c \in Cidrs : Remove(c[1], c[2])
    \/ \E c \in Cidrs \cup Cidr4Loose : Get(c[1], c[2])
    \/ \E ip \in Ips : GetByIP(ip)

Spec == Init /\ [][Next]_vars

NextWide ==
    \/ \E c \in CidrsWide, v \in Values : Add(c[1], c[2], v, MaxNodesWide)
    \/ \E c \in CidrsWide, v \in Values : Set(c[1], c[2], v, MaxNodesWide)
    \/ \E c \in CidrsWide : Sub(c[1], c[2])
    \/ \E c \in CidrsWide : Remove(c[1], c[2])
    \/ \E c \in CidrsWide : Get(c[1], c[2])
    \/ \E ip \in IpsWide : GetByIP(ip)

SpecWide == Init /\ [][NextWide]_vars

(***************************************************************************)
(* The registered prefixes, read off the tree from the root.                *)
(***************************************************************************)
\* the state after a step, as the record the operations take
Set1 == [nodes |-> nodes', root |-> root', free |-> free', pool |-> pool']

\* the bits of a byte sequence, most significant bit of the first byte first
Bits(key) ==
    [d \in 1..(Len(key) * BitsPerByte) |->
        IF BitSet(key[((d - 1) \div BitsPerByte) + 1],
                  Pow2(BitsPerByte - 1 - ((d - 1) % BitsPerByte)))
        THEN 1 ELSE 0]

\* the leading one bits of a mask: the bits the loops consume
Ones(mask) ==
    LET b == Bits(mask) IN
    IF \A d \in 1..Len(b) : b[d] = 1
    THEN Len(b)
    ELSE (CHOOSE d \in 1..Len(b) : b[d] = 0 /\ \A e \in 1..(d - 1) : b[e] = 1) - 1

\* the left/right choices (0/1) that lead from the root to a prefix's node
PathOf(key, mask) == SubSeq(Bits(key), 1, Ones(mask))

IsPrefix(p, q) == Len(p) <= Len(q) /\ SubSeq(q, 1, Len(p)) = p

\* <<path, node>> for every node reachable from `node` through left and right
RECURSIVE Walk(_, _, _, _)
Walk(s, node, path, fuel) ==
    IF node = NIL \/ fuel < 0
    THEN {}
    ELSE {<<path, node>>}
         \cup Walk(s, s.nodes[node].left, Append(path, 0), fuel - 1)
         \cup Walk(s, s.nodes[node].right, Append(path, 1), fuel - 1)

Tree(s) == Walk(s, s.root, <<>>, MaxBits)

Attached(s) == {e[2] : e \in Tree(s)}

\* <<path, value>> for every prefix that holds a value
RegMap(s) ==
    {<<e[1], s.nodes[e[2]].value>> : e \in {x \in Tree(s) : s.nodes[x[2]].value # NoValue}}

\* the node at the end of a path, or NIL
NodeAt(s, path) ==
    IF \E e \in Tree(s) : e[1] = path
    THEN (CHOOSE e \in Tree(s) : e[1] = path)[2]
    ELSE NIL

ValueAt(s, path) ==
    IF NodeAt(s, path) = NIL THEN NoValue ELSE s.nodes[NodeAt(s, path)].value

\* the value of the longest entry of `entries`, or none
Longest(entries) ==
    IF entries = {}
    THEN NoValue
    ELSE (CHOOSE e \in entries : \A f \in entries : Len(f[1]) <= Len(e[1]))[2]

\* longest-prefix match over the registered prefixes
LPM(s, bits) == Longest({e \in RegMap(s) : IsPrefix(e[1], bits)})

WellFormedOp(o) == Len(o.key) = Len(o.mask) /\ WellFormedLen(Len(o.key))

OpPath(o) == PathOf(o.key, o.mask)

\* the well-formed addresses the specifications look up
QueryIps == {ip \in Ips \cup IpsWide : WellFormedLen(Len(ip))}

(***************************************************************************)
(* C1: GetByIP of a well-formed address returns the value of the longest    *)
(* registered prefix whose bits are a prefix of the address, and none when  *)
(* no registered prefix covers it.                                          *)
(***************************************************************************)
C1_LongestPrefixMatch ==
    (lastOp.op = "GetByIP" /\ WellFormedLen(Len(lastOp.key)))
        => /\ lastOp.err = ErrNone
           /\ lastOp.ret = LPM(Set0, Bits(lastOp.key))

(***************************************************************************)
(* C2: Add on a prefix that holds a value fails with NodeBusy and changes   *)
(* nothing; Set on a well-formed prefix succeeds and a lookup of the prefix *)
(* then returns the value Set was given.                                    *)
(***************************************************************************)
C2_AddBusySetOverwrites ==
    [][ /\ (/\ lastOp'.op = "Add"
            /\ WellFormedOp(lastOp')
            /\ ValueAt(Set0, OpPath(lastOp')) # NoValue)
               => /\ lastOp'.err = ErrNodeBusy
                  /\ UNCHANGED <<nodes, root, free, pool>>
        /\ (lastOp'.op = "Set" /\ WellFormedOp(lastOp'))
               => /\ lastOp'.err = ErrNone
                  /\ find(Set1, lastOp'.key, lastOp'.mask)
                        = [value |-> lastOp'.value, err |-> ErrNone]
                  /\ ValueAt(Set1, OpPath(lastOp')) = lastOp'.value
      ]_vars

\* an Add was refused with NodeBusy and the prefix holds its first, other value
C2_Witness ==
    /\ lastOp.op = "Add"
    /\ WellFormedOp(lastOp)
    /\ lastOp.err = ErrNodeBusy
    /\ ValueAt(Set0, OpPath(lastOp)) \in Values \ {lastOp.value}
    /\ find(Set0, lastOp.key, lastOp.mask).value # lastOp.value

(***************************************************************************)
(* C3: a successful Remove(P) removes exactly P's mapping; afterwards an    *)
(* address under a registered Q more specific than P returns Q's value      *)
(* (the longest such Q), and an address covered by P and by no other        *)
(* registered prefix returns none.                                          *)
(***************************************************************************)
C3_RemoveExactlyP ==
    [][ (lastOp'.op = "Remove" /\ WellFormedOp(lastOp') /\ lastOp'.err = ErrNone)
           => LET P == OpPath(lastOp') IN
              /\ ValueAt(Set0, P) # NoValue
              /\ RegMap(Set1) = {e \in RegMap(Set0) : e[1] # P}
              /\ \A ip \in QueryIps :
                    LET others == {e \in RegMap(Set0) :
                                      e[1] # P /\ IsPrefix(e[1], Bits(ip))}
                        under == {e \in others : IsPrefix(P, e[1])}
                    IN  IsPrefix(P, Bits(ip))
                          => /\ under # {} => getByIP(Set1, ip).value = Longest(under)
                             /\ others = {} => getByIP(Set1, ip).value = NoValue
      ]_vars

(***************************************************************************)
(* C4: a successful Sub(P) removes P and every registered prefix under P    *)
(* and nothing else; an address under P then resolves to the longest        *)
(* remaining prefix shorter than P, or none.                                *)
(***************************************************************************)
C4_SubRemovesSubtree ==
    [][ (lastOp'.op = "Sub" /\ WellFormedOp(lastOp') /\ lastOp'.err = ErrNone)
           => LET P == OpPath(lastOp') IN
              /\ RegMap(Set1) = {e \in RegMap(Set0) : ~IsPrefix(P, e[1])}
              /\ NodeAt(Set1, P) = NIL
              /\ \A ip \in QueryIps :
                    IsPrefix(P, Bits(ip))
                       => getByIP(Set1, ip) =
                            [value |-> Longest({e \in RegMap(Set0) :
                                                  /\ IsPrefix(e[1], Bits(ip))
                                                  /\ Len(e[1]) < Len(P)}),
                             err |-> ErrNone]
      ]_vars

\* Sub has just released the node of a prefix that held a value and had a
\* child, and a shorter prefix still holds its value
C4_Witness ==
    /\ lastOp.op = "Sub"
    /\ WellFormedOp(lastOp)
    /\ lastOp.err = ErrNone
    /\ Len(OpPath(lastOp)) > 0
    /\ free # NIL
    /\ nodes[free].value # NoValue
    /\ nodes[free].left # NIL
    /\ NodeAt(Set0, OpPath(lastOp)) = NIL
    /\ RegMap(Set0) # {}

(***************************************************************************)
(* C5: Remove(P) on a well-formed prefix that holds no value fails with     *)
(* NotFound and leaves the structure unchanged.                             *)
(***************************************************************************)
C5_RemoveUnregistered ==
    [][ (/\ lastOp'.op = "Remove"
         /\ WellFormedOp(lastOp')
         /\ ValueAt(Set0, OpPath(lastOp')) = NoValue)
           => /\ lastOp'.err = ErrNotFound
              /\ UNCHANGED <<nodes, root, free, pool>>
      ]_vars

(***************************************************************************)
(* C6: Sub(P) on a well-formed prefix that holds no value makes no state    *)
(* change: every prefix registered before it is registered after it.        *)
(***************************************************************************)
C6_SubUnregistered ==
    [][ (/\ lastOp'.op = "Sub"
         /\ WellFormedOp(lastOp')
         /\ ValueAt(Set0, OpPath(lastOp')) = NoValue)
           => /\ lastOp'.err # ErrNone
              /\ RegMap(Set1) = RegMap(Set0)
              /\ UNCHANGED <<nodes, root, free, pool>>
      ]_vars

(***************************************************************************)
(* C7 as claimed: after a successful Remove(Q), Get(Q) with Q's own mask    *)
(* returns none, also when a shorter prefix covering Q holds a value.       *)
(***************************************************************************)
C7_GetAfterRemoveIsNone ==
    (lastOp.op = "Remove" /\ WellFormedOp(lastOp) /\ lastOp.err = ErrNone)
        => find(Set0, lastOp.key, lastOp.mask) = [value |-> NoValue, err |-> ErrNone]

(***************************************************************************)
(* C7 as amended: after a successful Remove(Q), Get(Q) with Q's own mask    *)
(* returns the value of the longest registered prefix covering Q (shorter   *)
(* than Q, Q holding no value now) and none when there is no such prefix;   *)
(* it also returns none when Q's mask is full length and Q's node is still  *)
(* attached.                                                                *)
(***************************************************************************)
C7_GetAfterRemoveFallsBack ==
    (lastOp.op = "Remove" /\ WellFormedOp(lastOp) /\ lastOp.err = ErrNone)
        => LET Q == OpPath(lastOp)
               kept == Len(Q) = Len(lastOp.key) * BitsPerByte /\ NodeAt(Set0, Q) # NIL
           IN  /\ ValueAt(Set0, Q) = NoValue
               /\ find(Set0, lastOp.key, lastOp.mask) =
                     [value |-> IF kept THEN NoValue ELSE LPM(Set0, Q),
                      err |-> ErrNone]

\* Remove(Q) succeeded, a shorter prefix covering Q holds a value, and Get(Q)
\* returns that value
C7_Witness ==
    /\ lastOp.op = "Remove"
    /\ WellFormedOp(lastOp)
    /\ lastOp.err = ErrNone
    /\ \E e \in RegMap(Set0) : IsPrefix(e[1], OpPath(lastOp)) /\ Len(e[1]) < Len(OpPath(lastOp))
    /\ find(Set0, lastOp.key, lastOp.mask).value \in Values

(***************************************************************************)
(* C8: insert, delete and find return BadAddress whenever the address and   *)
(* mask lengths differ or the length is not IPv4len or IPv6len, and GetByIP *)
(* returns BadAddress whenever the address length is neither; no malformed  *)
(* shape panics.                                                            *)
(***************************************************************************)
C8_MalformedIsBadAddress ==
    /\ (lastOp.op \in {"Add", "Set", "Sub", "Remove", "Get"} /\ ~WellFormedOp(lastOp))
          => lastOp.err = ErrBadIP
    /\ (lastOp.op = "GetByIP" /\ ~WellFormedLen(Len(lastOp.key)))
          => lastOp.err = ErrBadIP

(***************************************************************************)
(* C9: every node reachable from the root, other than the root, has a       *)
(* value or at least one child.                                             *)
(***************************************************************************)
C9_NoEmptyNodeAttached ==
    \A n \in Attached(Set0) \ {root} :
        nodes[n].value # NoValue \/ nodes[n].left # NIL \/ nodes[n].right # NIL

\* a deletion has released a leaf and then its emptied parent: the free list
\* holds the parent on top of its former child, and only the root is attached
C9_Witness ==
    /\ lastOp.op \in {"Remove", "Sub"}
    /\ lastOp.err = ErrNone
    /\ Len(OpPath(lastOp)) >= 2
    /\ free # NIL
    /\ nodes[free].right # NIL
    /\ nodes[nodes[free].right].parent = free
    /\ Attached(Set0) = {root}

(***************************************************************************)
(* C10: a node handed out from the free list has no left child, no right    *)
(* child, no parent and no value when it is handed out, and once linked it  *)
(* leads only to the node handed out after it: nothing of its previous      *)
(* tenancy is reachable through it.                                         *)
(***************************************************************************)
C10_RecycledNodeIsClean ==
    /\ \A i \in 1..Len(handed) : handed[i].recycled => handed[i].node = ZeroNode
    /\ \A i \in 1..Len(handed) :
          LET n == nodes[handed[i].p] IN
          IF i < Len(handed)
          THEN /\ n.value = NoValue
               /\ {n.left, n.right} = {NIL, handed[i + 1].p}
          ELSE /\ n.value = lastOp.value
               /\ n.left = NIL
               /\ n.right = NIL

\* an insertion was handed a node that Sub had released while it held a value
\* and a left child
C10_Witness ==
    /\ lastOp.op \in {"Add", "Set"}
    /\ lastOp.err = ErrNone
    /\ \E i \in 1..Len(handed) :
          /\ handed[i].recycled
          /\ handed[i].was.value # NoValue
          /\ handed[i].was.left # NIL
          /\ handed[i].p \in Attached(Set0)

(***************************************************************************)
(* The free list, read off `free` through the right links.                  *)
(***************************************************************************)
RECURSIVE FreeWalk(_, _, _)
FreeWalk(s, node, fuel) ==
    IF node = NIL \/ fuel = 0
    THEN <<>>
    ELSE <<node>> \o FreeWalk(s, s.nodes[node].right, fuel - 1)

\* the nodes of the free list, head first (cut after NodeSlots + 1 nodes)
FreeSeq(s) == FreeWalk(s, s.free, NodeSlots + 1)

FreeSet(s) == {FreeSeq(s)[i] : i \in 1..Len(FreeSeq(s))}

\* the path a lookup walks: the prefix's bits for Get, the address for GetByIP
LookupPath(o) == IF o.op = "GetByIP" THEN Bits(o.key) ELSE OpPath(o)

(***************************************************************************)
(* C11: Remove and Sub of the zero-length prefix complete with nil or       *)
(* NotFound, never by dereferencing the root's absent parent, and the root  *)
(* stays the root, off the free list.                                       *)
(***************************************************************************)
C11_RootDeleteCompletes ==
    (lastOp.op \in {"Remove", "Sub"} /\ WellFormedOp(lastOp) /\ OpPath(lastOp) = <<>>)
        => /\ lastOp.err \in {ErrNone, ErrNotFound}
           /\ root \notin FreeSet(Set0)
           /\ nodes[root].parent = NIL

(***************************************************************************)
(* C12: when find has consumed every bit of the address and the node at     *)
(* that depth is attached but holds no value, it returns the best match     *)
(* recorded on the way down.                                                *)
(***************************************************************************)
C12_FinalNodeWithoutValue ==
    (/\ lastOp.op \in {"Get", "GetByIP"}
     /\ lastOp.err = ErrNone
     /\ (lastOp.op = "Get" => WellFormedOp(lastOp))
     /\ Len(LookupPath(lastOp)) = Len(lastOp.key) * BitsPerByte
     /\ NodeAt(Set0, LookupPath(lastOp)) # NIL
     /\ ValueAt(Set0, LookupPath(lastOp)) = NoValue)
        => lastOp.ret = LPM(Set0, LookupPath(lastOp))

(***************************************************************************)
(* C13: Get with a mask of n leading one bits returns the value of the      *)
(* deepest node holding a value at depth at most n on the address's path,   *)
(* whatever the address bits from position n on.                            *)
(***************************************************************************)
C13_GetLooksAtMaskedBits ==
    (lastOp.op = "Get" /\ WellFormedOp(lastOp))
        => /\ lastOp.err = ErrNone
           /\ lastOp.ret = LPM(Set0, OpPath(lastOp))

(***************************************************************************)
(* C14: a successful Add or Set of P changes only P's mapping: every other  *)
(* registered prefix keeps its value, every attached node stays at its      *)
(* path with its parent and its children, and the nodes that appear are     *)
(* the ones newNode handed out, on P's path.                                *)
(***************************************************************************)
HandedSet(h) == {h[i].p : i \in 1..Len(h)}

C14_InsertChangesOnlyP ==
    [][ (lastOp'.op \in {"Add", "Set"} /\ WellFormedOp(lastOp') /\ lastOp'.err = ErrNone)
           => LET P == OpPath(lastOp')
                  new == Tree(Set1) \ Tree(Set0)
              IN  /\ RegMap(Set1) = {e \in RegMap(Set0) : e[1] # P}
                                       \cup {<<P, lastOp'.value>>}
                  /\ Tree(Set0) \subseteq Tree(Set1)
                  /\ \A e \in new : IsPrefix(e[1], P) /\ e[2] \in HandedSet(handed')
                  /\ Cardinality(new) = Len(handed')
                  /\ \A e \in new : \A f \in Tree(Set0) :
                        IsPrefix(f[1], P) => Len(f[1]) < Len(e[1])
                  /\ \A n \in Attached(Set0) :
                        /\ nodes'[n].parent = nodes[n].parent
                        /\ nodes'[n].left = nodes[n].left
                              \/ (nodes[n].left = NIL /\ nodes'[n].left \in HandedSet(handed'))
                        /\ nodes'[n].right = nodes[n].right
                              \/ (nodes[n].right = NIL /\ nodes'[n].right \in HandedSet(handed'))
      ]_vars

\* an insertion has created a node for P while a shorter prefix and a prefix
\* beside P hold values, which they keep
C14_Witness ==
    /\ lastOp.op \in {"Add", "Set"}
    /\ WellFormedOp(lastOp)
    /\ lastOp.err = ErrNone
    /\ Len(handed) >= 1
    /\ \E e \in RegMap(Set0) : Len(e[1]) < Len(OpPath(lastOp)) /\ IsPrefix(e[1], OpPath(lastOp))
    /\ \E e \in RegMap(Set0) : ~IsPrefix(e[1], OpPath(lastOp)) /\ ~IsPrefix(OpPath(lastOp), e[1])

(***************************************************************************)
(* C15: parent-link consistency.  The root has no parent, each child of an  *)
(* attached node names that node as its parent, each attached node other    *)
(* than the root is the child of exactly one attached node and sits at      *)
(* exactly one path, whose length is the number of parent links up to the   *)
(* root and never exceeds the bits of the longest key.                      *)
(***************************************************************************)
RECURSIVE Climb(_, _, _)
Climb(s, node, fuel) ==
    IF s.nodes[node].parent = NIL \/ fuel = 0 THEN 0
    ELSE 1 + Climb(s, s.nodes[node].parent, fuel - 1)

ChildLinks(s, n) ==
    {<<m, side>> \in Attached(s) \X {"left", "right"} :
        IF side = "left" THEN s.nodes[m].left = n ELSE s.nodes[m].right = n}

C15_ParentLinks ==
    /\ nodes[root].parent = NIL
    /\ \A n \in Attached(Set0) :
          /\ nodes[n].left # NIL => nodes[nodes[n].left].parent = n
          /\ nodes[n].right # NIL => nodes[nodes[n].right].parent = n
          /\ n # root => Cardinality(ChildLinks(Set0, n)) = 1
    /\ ChildLinks(Set0, root) = {}
    /\ \A e \in Tree(Set0) :
          /\ Len(e[1]) = Climb(Set0, e[2], NodeSlots)
          /\ \A f \in Tree(Set0) : f[2] = e[2] => f[1] = e[1]
          /\ Len(e[1]) = MaxBits => nodes[e[2]].left = NIL /\ nodes[e[2]].right = NIL

\* the root has two children and the last insertion attached a recycled node
C15_Witness ==
    /\ lastOp.op \in {"Add", "Set"}
    /\ lastOp.err = ErrNone
    /\ \E i \in 1..Len(handed) : handed[i].recycled /\ handed[i].p \in Attached(Set0)
    /\ nodes[root].left # NIL
    /\ nodes[root].right # NIL

(***************************************************************************)
(* C16: arena discipline.  After every step the free list is a chain that   *)
(* ends at nil with no node on it twice and no node on it reachable from    *)
(* the root.  An insertion is handed the nodes of the free list in order    *)
(* from its head, and fresh pool slots only once the list is empty; none of *)
(* them was attached and none is handed out twice.  A deletion pushes the   *)
(* nodes it detaches in front of the old free list.                         *)
(***************************************************************************)
NoDuplicates(seq) == \A i, j \in 1..Len(seq) : seq[i] = seq[j] => i = j

C16_ArenaDiscipline ==
    [][ LET before == FreeSeq(Set0)
            after == FreeSeq(Set1)
            k == Len(after) - Len(before)
        IN  /\ Len(after) <= NodeSlots
            /\ NoDuplicates(after)
            /\ FreeSet(Set1) \cap Attached(Set1) = {}
            /\ FreeSet(Set1) \subseteq 1..Carved(pool')
            /\ lastOp'.op \in {"Add", "Set"} =>
                  /\ \A i \in 1..Len(handed') :
                        /\ handed'[i].p \notin Attached(Set0)
                        /\ IF i <= Len(before)
                           THEN handed'[i].recycled /\ handed'[i].p = before[i]
                           ELSE /\ ~handed'[i].recycled
                                /\ handed'[i].p = Carved(pool) + (i - Len(before))
                  /\ NoDuplicates([i \in 1..Len(handed') |-> handed'[i].p])
                  /\ after = SubSeq(before, Len(handed') + 1, Len(before))
                  /\ Carved(pool') = Carved(pool)
                        + (IF Len(handed') > Len(before)
                           THEN Len(handed') - Len(before) ELSE 0)
            /\ lastOp'.op \in {"Remove", "Sub"} =>
                  /\ k >= 0
                  /\ SubSeq(after, k + 1, Len(after)) = before
                  /\ \A i \in 1..k : after[i] \in Attached(Set0) \ Attached(Set1)
                  /\ pool' = pool
            /\ lastOp'.op \in {"Get", "GetByIP"} => after = before /\ pool' = pool
      ]_vars

\* an insertion has emptied a free list of two nodes and carved a fresh slot
\* after them
C16_Witness ==
    /\ lastOp.op \in {"Add", "Set"}
    /\ lastOp.err = ErrNone
    /\ Len(handed) >= 3
    /\ handed[1].recycled
    /\ handed[2].recycled
    /\ ~handed[3].recycled
    /\ free = NIL

(***************************************************************************)
(* C17: no node is leaked.  Every node carved from the pool blocks is       *)
(* either reachable from the root or on the free list.                      *)
(***************************************************************************)
C17_NoNodeLeaked ==
    \A n \in 1..Carved(pool) : n \in Attached(Set0) \/ n \in FreeSet(Set0)

(***************************************************************************)
(* C18: Add then Remove is a round trip.  In every reachable state, for     *)
(* every well-formed prefix P that holds no value and every value v,        *)
(* insert(P, v) without overwrite followed by delete(P) without sub both    *)
(* return nil and leave the same attached paths with the same values.       *)
(***************************************************************************)
\* the attached paths with the value at each
Shape(s) == {<<e[1], s.nodes[e[2]].value>> : e \in Tree(s)}

RoundTrip(c, v) ==
    LET added == insert(Set0, c[1], c[2], v, FALSE)
        removed == delete(added.s, c[1], c[2], FALSE)
    IN  /\ added.err = ErrNone
        /\ removed.err = ErrNone
        /\ Shape(removed.s) = Shape(Set0)

C18_AddRemoveRoundTrip ==
    \A c \in Cidr4 \cup Cidr16 : \A v \in Values :
        ValueAt(Set0, PathOf(c[1], c[2])) = NoValue => RoundTrip(c, v)

====
